---- MODULE Spec2Model ----
(***************************************************************************)
(* Model of post_bible_image.py: a one-shot script that picks the next     *)
(* image of a directory (get_next_image), posts it with one HTTP POST      *)
(* (post_image) and records the posted index in a text file                *)
(* (update_state_file).                                                    *)
(*                                                                         *)
(* File names and the contents of the state file are sequences of          *)
(* one-character strings, so that filtering, key extraction, int() and     *)
(* str() are computed the way the code computes them.                      *)
(*                                                                         *)
(* Spec runs invocations one after the other, with the write of the state  *)
(* file as one step. SpecCrash takes that write apart and lets the process *)
(* die inside it. SpecOverlap runs two invocations side by side.           *)
(***************************************************************************)
EXTENDS Integers, Sequences, FiniteSets, TLC

\* ------------------------------------------------------------------ bounds
MaxFiles == 3   \* most entries os.listdir returns
MaxRuns == 2    \* most invocations of post_image in one behaviour
MaxRedirects == 1   \* most 307/308 answers one requests.post call follows
LongFiles == 11     \* images of the one directory whose last index has two digits

\* ------------------------------------------------------------- characters
\* A character is a one-character string; a character that does not print
\* or lies beyond Latin-1 is written by its code point ("U+0663"). The
\* classes are those of Unicode 15.1 (CPython 3.12 and 3.13), in full.

\* the characters of str.isdecimal(), which int() reads as digits: 68 runs
\* of ten, each from the digit zero to the digit nine of one script
DecimalRuns ==
    <<
      <<"0", "1", "2", "3", "4", "5", "6", "7", "8", "9">>,
      <<"U+0660", "U+0661", "U+0662", "U+0663", "U+0664", "U+0665", "U+0666", "U+0667", "U+0668", "U+0669">>,
      <<"U+06F0", "U+06F1", "U+06F2", "U+06F3", "U+06F4", "U+06F5", "U+06F6", "U+06F7", "U+06F8", "U+06F9">>,
      <<"U+07C0", "U+07C1", "U+07C2", "U+07C3", "U+07C4", "U+07C5", "U+07C6", "U+07C7", "U+07C8", "U+07C9">>,
      <<"U+0966", "U+0967", "U+0968", "U+0969", "U+096A", "U+096B", "U+096C", "U+096D", "U+096E", "U+096F">>,
      <<"U+09E6", "U+09E7", "U+09E8", "U+09E9", "U+09EA", "U+09EB", "U+09EC", "U+09ED", "U+09EE", "U+09EF">>,
      <<"U+0A66", "U+0A67", "U+0A68", "U+0A69", "U+0A6A", "U+0A6B", "U+0A6C", "U+0A6D", "U+0A6E", "U+0A6F">>,
      <<"U+0AE6", "U+0AE7", "U+0AE8", "U+0AE9", "U+0AEA", "U+0AEB", "U+0AEC", "U+0AED", "U+0AEE", "U+0AEF">>,
      <<"U+0B66", "U+0B67", "U+0B68", "U+0B69", "U+0B6A", "U+0B6B", "U+0B6C", "U+0B6D", "U+0B6E", "U+0B6F">>,
      <<"U+0BE6", "U+0BE7", "U+0BE8", "U+0BE9", "U+0BEA", "U+0BEB", "U+0BEC", "U+0BED", "U+0BEE", "U+0BEF">>,
      <<"U+0C66", "U+0C67", "U+0C68", "U+0C69", "U+0C6A", "U+0C6B", "U+0C6C", "U+0C6D", "U+0C6E", "U+0C6F">>,
      <<"U+0CE6", "U+0CE7", "U+0CE8", "U+0CE9", "U+0CEA", "U+0CEB", "U+0CEC", "U+0CED", "U+0CEE", "U+0CEF">>,
      <<"U+0D66", "U+0D67", "U+0D68", "U+0D69", "U+0D6A", "U+0D6B", "U+0D6C", "U+0D6D", "U+0D6E", "U+0D6F">>,
      <<"U+0DE6", "U+0DE7", "U+0DE8", "U+0DE9", "U+0DEA", "U+0DEB", "U+0DEC", "U+0DED", "U+0DEE", "U+0DEF">>,
      <<"U+0E50", "U+0E51", "U+0E52", "U+0E53", "U+0E54", "U+0E55", "U+0E56", "U+0E57", "U+0E58", "U+0E59">>,
      <<"U+0ED0", "U+0ED1", "U+0ED2", "U+0ED3", "U+0ED4", "U+0ED5", "U+0ED6", "U+0ED7", "U+0ED8", "U+0ED9">>,
      <<"U+0F20", "U+0F21", "U+0F22", "U+0F23", "U+0F24", "U+0F25", "U+0F26", "U+0F27", "U+0F28", "U+0F29">>,
      <<"U+1040", "U+1041", "U+1042", "U+1043", "U+1044", "U+1045", "U+1046", "U+1047", "U+1048", "U+1049">>,
      <<"U+1090", "U+1091", "U+1092", "U+1093", "U+1094", "U+1095", "U+1096", "U+1097", "U+1098", "U+1099">>,
      <<"U+17E0", "U+17E1", "U+17E2", "U+17E3", "U+17E4", "U+17E5", "U+17E6", "U+17E7", "U+17E8", "U+17E9">>,
      <<"U+1810", "U+1811", "U+1812", "U+1813", "U+1814", "U+1815", "U+1816", "U+1817", "U+1818", "U+1819">>,
      <<"U+1946", "U+1947", "U+1948", "U+1949", "U+194A", "U+194B", "U+194C", "U+194D", "U+194E", "U+194F">>,
      <<"U+19D0", "U+19D1", "U+19D2", "U+19D3", "U+19D4", "U+19D5", "U+19D6", "U+19D7", "U+19D8", "U+19D9">>,
      <<"U+1A80", "U+1A81", "U+1A82", "U+1A83", "U+1A84", "U+1A85", "U+1A86", "U+1A87", "U+1A88", "U+1A89">>,
      <<"U+1A90", "U+1A91", "U+1A92", "U+1A93", "U+1A94", "U+1A95", "U+1A96", "U+1A97", "U+1A98", "U+1A99">>,
      <<"U+1B50", "U+1B51", "U+1B52", "U+1B53", "U+1B54", "U+1B55", "U+1B56", "U+1B57", "U+1B58", "U+1B59">>,
      <<"U+1BB0", "U+1BB1", "U+1BB2", "U+1BB3", "U+1BB4", "U+1BB5", "U+1BB6", "U+1BB7", "U+1BB8", "U+1BB9">>,
      <<"U+1C40", "U+1C41", "U+1C42", "U+1C43", "U+1C44", "U+1C45", "U+1C46", "U+1C47", "U+1C48", "U+1C49">>,
      <<"U+1C50", "U+1C51", "U+1C52", "U+1C53", "U+1C54", "U+1C55", "U+1C56", "U+1C57", "U+1C58", "U+1C59">>,
      <<"U+A620", "U+A621", "U+A622", "U+A623", "U+A624", "U+A625", "U+A626", "U+A627", "U+A628", "U+A629">>,
      <<"U+A8D0", "U+A8D1", "U+A8D2", "U+A8D3", "U+A8D4", "U+A8D5", "U+A8D6", "U+A8D7", "U+A8D8", "U+A8D9">>,
      <<"U+A900", "U+A901", "U+A902", "U+A903", "U+A904", "U+A905", "U+A906", "U+A907", "U+A908", "U+A909">>,
      <<"U+A9D0", "U+A9D1", "U+A9D2", "U+A9D3", "U+A9D4", "U+A9D5", "U+A9D6", "U+A9D7", "U+A9D8", "U+A9D9">>,
      <<"U+A9F0", "U+A9F1", "U+A9F2", "U+A9F3", "U+A9F4", "U+A9F5", "U+A9F6", "U+A9F7", "U+A9F8", "U+A9F9">>,
      <<"U+AA50", "U+AA51", "U+AA52", "U+AA53", "U+AA54", "U+AA55", "U+AA56", "U+AA57", "U+AA58", "U+AA59">>,
      <<"U+ABF0", "U+ABF1", "U+ABF2", "U+ABF3", "U+ABF4", "U+ABF5", "U+ABF6", "U+ABF7", "U+ABF8", "U+ABF9">>,
      <<"U+FF10", "U+FF11", "U+FF12", "U+FF13", "U+FF14", "U+FF15", "U+FF16", "U+FF17", "U+FF18", "U+FF19">>,
      <<"U+104A0", "U+104A1", "U+104A2", "U+104A3", "U+104A4", "U+104A5", "U+104A6", "U+104A7", "U+104A8", "U+104A9">>,
      <<"U+10D30", "U+10D31", "U+10D32", "U+10D33", "U+10D34", "U+10D35", "U+10D36", "U+10D37", "U+10D38", "U+10D39">>,
      <<"U+11066", "U+11067", "U+11068", "U+11069", "U+1106A", "U+1106B", "U+1106C", "U+1106D", "U+1106E", "U+1106F">>,
      <<"U+110F0", "U+110F1", "U+110F2", "U+110F3", "U+110F4", "U+110F5", "U+110F6", "U+110F7", "U+110F8", "U+110F9">>,
      <<"U+11136", "U+11137", "U+11138", "U+11139", "U+1113A", "U+1113B", "U+1113C", "U+1113D", "U+1113E", "U+1113F">>,
      <<"U+111D0", "U+111D1", "U+111D2", "U+111D3", "U+111D4", "U+111D5", "U+111D6", "U+111D7", "U+111D8", "U+111D9">>,
      <<"U+112F0", "U+112F1", "U+112F2", "U+112F3", "U+112F4", "U+112F5", "U+112F6", "U+112F7", "U+112F8", "U+112F9">>,
      <<"U+11450", "U+11451", "U+11452", "U+11453", "U+11454", "U+11455", "U+11456", "U+11457", "U+11458", "U+11459">>,
      <<"U+114D0", "U+114D1", "U+114D2", "U+114D3", "U+114D4", "U+114D5", "U+114D6", "U+114D7", "U+114D8", "U+114D9">>,
      <<"U+11650", "U+11651", "U+11652", "U+11653", "U+11654", "U+11655", "U+11656", "U+11657", "U+11658", "U+11659">>,
      <<"U+116C0", "U+116C1", "U+116C2", "U+116C3", "U+116C4", "U+116C5", "U+116C6", "U+116C7", "U+116C8", "U+116C9">>,
      <<"U+11730", "U+11731", "U+11732", "U+11733", "U+11734", "U+11735", "U+11736", "U+11737", "U+11738", "U+11739">>,
      <<"U+118E0", "U+118E1", "U+118E2", "U+118E3", "U+118E4", "U+118E5", "U+118E6", "U+118E7", "U+118E8", "U+118E9">>,
      <<"U+11950", "U+11951", "U+11952", "U+11953", "U+11954", "U+11955", "U+11956", "U+11957", "U+11958", "U+11959">>,
      <<"U+11C50", "U+11C51", "U+11C52", "U+11C53", "U+11C54", "U+11C55", "U+11C56", "U+11C57", "U+11C58", "U+11C59">>,
      <<"U+11D50", "U+11D51", "U+11D52", "U+11D53", "U+11D54", "U+11D55", "U+11D56", "U+11D57", "U+11D58", "U+11D59">>,
      <<"U+11DA0", "U+11DA1", "U+11DA2", "U+11DA3", "U+11DA4", "U+11DA5", "U+11DA6", "U+11DA7", "U+11DA8", "U+11DA9">>,
      <<"U+11F50", "U+11F51", "U+11F52", "U+11F53", "U+11F54", "U+11F55", "U+11F56", "U+11F57", "U+11F58", "U+11F59">>,
      <<"U+16A60", "U+16A61", "U+16A62", "U+16A63", "U+16A64", "U+16A65", "U+16A66", "U+16A67", "U+16A68", "U+16A69">>,
      <<"U+16AC0", "U+16AC1", "U+16AC2", "U+16AC3", "U+16AC4", "U+16AC5", "U+16AC6", "U+16AC7", "U+16AC8", "U+16AC9">>,
      <<"U+16B50", "U+16B51", "U+16B52", "U+16B53", "U+16B54", "U+16B55", "U+16B56", "U+16B57", "U+16B58", "U+16B59">>,
      <<"U+1D7CE", "U+1D7CF", "U+1D7D0", "U+1D7D1", "U+1D7D2", "U+1D7D3", "U+1D7D4", "U+1D7D5", "U+1D7D6", "U+1D7D7">>,
      <<"U+1D7D8", "U+1D7D9", "U+1D7DA", "U+1D7DB", "U+1D7DC", "U+1D7DD", "U+1D7DE", "U+1D7DF", "U+1D7E0", "U+1D7E1">>,
      <<"U+1D7E2", "U+1D7E3", "U+1D7E4", "U+1D7E5", "U+1D7E6", "U+1D7E7", "U+1D7E8", "U+1D7E9", "U+1D7EA", "U+1D7EB">>,
      <<"U+1D7EC", "U+1D7ED", "U+1D7EE", "U+1D7EF", "U+1D7F0", "U+1D7F1", "U+1D7F2", "U+1D7F3", "U+1D7F4", "U+1D7F5">>,
      <<"U+1D7F6", "U+1D7F7", "U+1D7F8", "U+1D7F9", "U+1D7FA", "U+1D7FB", "U+1D7FC", "U+1D7FD", "U+1D7FE", "U+1D7FF">>,
      <<"U+1E140", "U+1E141", "U+1E142", "U+1E143", "U+1E144", "U+1E145", "U+1E146", "U+1E147", "U+1E148", "U+1E149">>,
      <<"U+1E2F0", "U+1E2F1", "U+1E2F2", "U+1E2F3", "U+1E2F4", "U+1E2F5", "U+1E2F6", "U+1E2F7", "U+1E2F8", "U+1E2F9">>,
      <<"U+1E4F0", "U+1E4F1", "U+1E4F2", "U+1E4F3", "U+1E4F4", "U+1E4F5", "U+1E4F6", "U+1E4F7", "U+1E4F8", "U+1E4F9">>,
      <<"U+1E950", "U+1E951", "U+1E952", "U+1E953", "U+1E954", "U+1E955", "U+1E956", "U+1E957", "U+1E958", "U+1E959">>,
      <<"U+1FBF0", "U+1FBF1", "U+1FBF2", "U+1FBF3", "U+1FBF4", "U+1FBF5", "U+1FBF6", "U+1FBF7", "U+1FBF8", "U+1FBF9">>
    >>

\* the value int() gives each decimal digit: its place in its run
DigitTable ==
    [c \in UNION { { DecimalRuns[r][i] : i \in 1..10 } : r \in 1..Len(DecimalRuns) } |->
        (CHOOSE i \in 1..10 : \E r \in 1..Len(DecimalRuns) : DecimalRuns[r][i] = c) - 1]

DecimalDigits == DOMAIN DigitTable

\* str.isdigit() and not str.isdecimal(): superscripts, subscripts, circled
\* and parenthesized digits and the like, which int() refuses
OtherDigits ==
    { "²", "³", "¹", "U+1369", "U+136A", "U+136B", "U+136C", "U+136D",
      "U+136E", "U+136F", "U+1370", "U+1371", "U+19DA", "U+2070", "U+2074", "U+2075",
      "U+2076", "U+2077", "U+2078", "U+2079", "U+2080", "U+2081", "U+2082", "U+2083",
      "U+2084", "U+2085", "U+2086", "U+2087", "U+2088", "U+2089", "U+2460", "U+2461",
      "U+2462", "U+2463", "U+2464", "U+2465", "U+2466", "U+2467", "U+2468", "U+2474",
      "U+2475", "U+2476", "U+2477", "U+2478", "U+2479", "U+247A", "U+247B", "U+247C",
      "U+2488", "U+2489", "U+248A", "U+248B", "U+248C", "U+248D", "U+248E", "U+248F",
      "U+2490", "U+24EA", "U+24F5", "U+24F6", "U+24F7", "U+24F8", "U+24F9", "U+24FA",
      "U+24FB", "U+24FC", "U+24FD", "U+24FF", "U+2776", "U+2777", "U+2778", "U+2779",
      "U+277A", "U+277B", "U+277C", "U+277D", "U+277E", "U+2780", "U+2781", "U+2782",
      "U+2783", "U+2784", "U+2785", "U+2786", "U+2787", "U+2788", "U+278A", "U+278B",
      "U+278C", "U+278D", "U+278E", "U+278F", "U+2790", "U+2791", "U+2792", "U+10A40",
      "U+10A41", "U+10A42", "U+10A43", "U+10E60", "U+10E61", "U+10E62", "U+10E63", "U+10E64",
      "U+10E65", "U+10E66", "U+10E67", "U+10E68", "U+11052", "U+11053", "U+11054", "U+11055",
      "U+11056", "U+11057", "U+11058", "U+11059", "U+1105A", "U+1F100", "U+1F101", "U+1F102",
      "U+1F103", "U+1F104", "U+1F105", "U+1F106", "U+1F107", "U+1F108", "U+1F109", "U+1F10A" }

\* the characters of str.isdigit()
Digits == DecimalDigits \cup OtherDigits

\* the characters int() skips around a number
IntWhitespace ==
    { " ", "\t", "\n", "\r", "\f", "U+000B", "U+0085", "U+00A0",
      "U+1680", "U+2000", "U+2001", "U+2002",
      "U+2003", "U+2004", "U+2005", "U+2006", "U+2007", "U+2008", "U+2009",
      "U+200A", "U+2028", "U+2029", "U+202F", "U+205F", "U+3000" }

\* the characters str.strip() removes (str.isspace): those and U+001C..U+001F
Whitespace == IntWhitespace \cup {"U+001C", "U+001D", "U+001E", "U+001F"}

\* the tuple (".png", ".jpg", ".jpeg") of line 24
IMAGE_EXTENSIONS == { <<".", "p", "n", "g">>, <<".", "j", "p", "g">>, <<".", "j", "p", "e", "g">> }

\* for each character of the extensions, the characters whose str.lower()
\* holds it: the character and, for a letter, its ASCII capital. No other
\* character of Unicode has a lower-case form with one of these in it.
LowersTo ==
    [c \in {".", "p", "n", "g", "j", "e"} |->
        CASE c = "." -> {"."}
          [] c = "p" -> {"p", "P"}
          [] c = "n" -> {"n", "N"}
          [] c = "g" -> {"g", "G"}
          [] c = "j" -> {"j", "J"}
          [] c = "e" -> {"e", "E"}]

\* f.lower().endswith((".png", ".jpg", ".jpeg")). The lower-case form of a
\* name is made of the lower-case forms of its characters in order (one
\* character each but for U+0130, which gives two), so it ends in an
\* extension exactly when the last characters of the name lower to it.
IsImageName(f) ==
    \E ext \in IMAGE_EXTENSIONS :
        /\ Len(ext) <= Len(f)
        /\ \A i \in 1..Len(ext) : f[Len(f) - Len(ext) + i] \in LowersTo[ext[i]]

\* str.isdigit() on one character
IsDigit(c) == c \in Digits

\* the characters int() reads as digits
IsDecimal(c) == c \in DecimalDigits

\* the value of one decimal digit
DigitVal(c) == DigitTable[c]

\* ''.join(filter(str.isdigit, x))
DigitsOf(f) == SelectSeq(f, IsDigit)

\* drop the leading and the trailing characters that belong to ws
RECURSIVE LStrip(_, _)
LStrip(s, ws) == IF s # <<>> /\ Head(s) \in ws THEN LStrip(Tail(s), ws) ELSE s

RECURSIVE RStrip(_, _)
RStrip(s, ws) ==
    IF s # <<>> /\ s[Len(s)] \in ws THEN RStrip(SubSeq(s, 1, Len(s) - 1), ws) ELSE s

\* str.strip()
Strip(s) == RStrip(LStrip(s, Whitespace), Whitespace)

\* value of a string of decimal digits, underscores skipped
RECURSIVE DigitsValue(_)
DigitsValue(s) ==
    IF s = <<>> THEN 0
    ELSE IF s[Len(s)] = "_" THEN DigitsValue(SubSeq(s, 1, Len(s) - 1))
    ELSE 10 * DigitsValue(SubSeq(s, 1, Len(s) - 1)) + DigitVal(s[Len(s)])

\* sys.int_max_str_digits as the interpreter sets it: the most digits int()
\* converts
IntMaxStrDigits == 4300

\* the digit part int() accepts: digits, single underscores between digits,
\* and no more digits than the limit (leading zeros count, underscores do
\* not)
IsIntBody(s) ==
    /\ s # <<>>
    /\ Len(SelectSeq(s, IsDecimal)) <= IntMaxStrDigits
    /\ \A i \in 1..Len(s) : IsDecimal(s[i]) \/ s[i] = "_"
    /\ IsDecimal(s[1])
    /\ IsDecimal(s[Len(s)])
    /\ \A i \in 1..(Len(s) - 1) : ~(s[i] = "_" /\ s[i + 1] = "_")

\* int(s): [ok |-> FALSE] stands for ValueError
ParseInt(s) ==
    LET t == RStrip(LStrip(s, IntWhitespace), IntWhitespace)
        signed == t # <<>> /\ Head(t) \in {"+", "-"}
        body == IF signed THEN Tail(t) ELSE t
    IN  IF IsIntBody(body)
        THEN [ok |-> TRUE,
              val |-> IF signed /\ Head(t) = "-" THEN 0 - DigitsValue(body)
                      ELSE DigitsValue(body)]
        ELSE [ok |-> FALSE, val |-> 0]

DigitChar(d) == <<"0", "1", "2", "3", "4", "5", "6", "7", "8", "9">>[d + 1]

RECURSIVE NatToStr(_)
NatToStr(n) ==
    IF n < 10 THEN <<DigitChar(n)>> ELSE Append(NatToStr(n \div 10), DigitChar(n % 10))

\* str(n)
IntToStr(n) == IF n < 0 THEN <<"-">> \o NatToStr(0 - n) ELSE NatToStr(n)

\* --------------------------------------------------------------- listing
\* key=lambda x: int(''.join(filter(str.isdigit, x)))
SortKey(f) == ParseInt(DigitsOf(f))

\* insert x after every entry whose key is not greater (stable)
RECURSIVE InsertByKey(_, _)
InsertByKey(sorted, x) ==
    IF sorted = <<>> THEN <<x>>
    ELSE IF SortKey(x).val < SortKey(Head(sorted)).val THEN <<x>> \o sorted
    ELSE <<Head(sorted)>> \o InsertByKey(Tail(sorted), x)

\* a listing left in os.listdir order (the sort forgotten)
SortedNot(s) == s

\* sorted(list, key=...): ascending, equal keys keep their input order
RECURSIVE Sorted(_)
Sorted(s) ==
    IF s = <<>> THEN <<>> ELSE InsertByKey(Sorted(SubSeq(s, 1, Len(s) - 1)), s[Len(s)])

\* [f for f in os.listdir(IMAGES_DIR) if f.lower().endswith(...)]
Matching(entries) == SelectSeq(entries, IsImageName)

\* lines 21-36: the listing, or the reason there is none
ListImages(d) ==
    IF d.status = "missing" THEN [result |-> "dir_not_found", files |-> <<>>]
    ELSE IF d.status = "denied" THEN [result |-> "raised", files |-> <<>>]
    ELSE LET m == Matching(d.entries)
         IN  IF \E i \in 1..Len(m) : ~SortKey(m[i]).ok
             THEN [result |-> "sort_error", files |-> <<>>]
             ELSE IF m = <<>> THEN [result |-> "no_images", files |-> <<>>]
             ELSE [result |-> "ok", files |-> Sorted(m)]

\* ------------------------------------------------------------ state file
\* lines 39-46: the value of last_posted_index; [ok |-> FALSE] stands for
\* the exception open() raises on a file that exists and cannot be read
ReadState(sf) ==
    IF sf.kind = "absent" THEN [ok |-> TRUE, val |-> 0 - 1]
    ELSE IF sf.kind = "unreadable" THEN [ok |-> FALSE, val |-> 0]
    ELSE LET p == ParseInt(Strip(sf.text))
         IN  IF p.ok THEN [ok |-> TRUE, val |-> p.val] ELSE [ok |-> TRUE, val |-> 0 - 1]

\* a variant of update_state_file that stores the index the next run will
\* look for instead of the index just posted
update_state_file_next(last_successful_index) ==
    [kind |-> "text", text |-> IntToStr(last_successful_index + 1)]

\* lines 59-63: the file after update_state_file(last_successful_index)
update_state_file(last_successful_index) ==
    [kind |-> "text", text |-> IntToStr(last_successful_index)]

\* ------------------------------------------------------------- selection
\* files[i] of Python, i counted from 0, negative i counted from the end
PyIndexOk(files, i) == 0 - Len(files) <= i /\ i < Len(files)

PyIndex(files, i) == IF i >= 0 THEN files[i + 1] ELSE files[Len(files) + i + 1]

\* a variant of get_next_image that reads the state file before it lists the
\* directory
get_next_image_state_first(d, sf) ==
    LET l == ListImages(d)
        r == ReadState(sf)
        next_index_to_post == r.val + 1
        nothing == [found |-> FALSE, name |-> <<>>, index |-> 0]
    IN  IF ~r.ok THEN [result |-> "raised", files |-> <<>>, sel |-> nothing]
        ELSE IF l.result # "ok" THEN [result |-> l.result, files |-> l.files, sel |-> nothing]
        ELSE IF next_index_to_post < Len(l.files)
             THEN IF PyIndexOk(l.files, next_index_to_post)
                  THEN [result |-> "found", files |-> l.files,
                        sel |-> [found |-> TRUE,
                                 name |-> PyIndex(l.files, next_index_to_post),
                                 index |-> next_index_to_post]]
                  ELSE [result |-> "raised", files |-> l.files, sel |-> nothing]
             ELSE [result |-> "all_posted", files |-> l.files, sel |-> nothing]

\* lines 19-57: what get_next_image returns or raises
get_next_image(d, sf) ==
    LET l == ListImages(d)
        r == ReadState(sf)
        next_index_to_post == r.val + 1
        nothing == [found |-> FALSE, name |-> <<>>, index |-> 0]
    IN  IF l.result # "ok" THEN [result |-> l.result, files |-> l.files, sel |-> nothing]
        ELSE IF ~r.ok THEN [result |-> "raised", files |-> l.files, sel |-> nothing]
        ELSE IF next_index_to_post < Len(l.files)
             THEN IF PyIndexOk(l.files, next_index_to_post)
                  THEN [result |-> "found", files |-> l.files,
                        sel |-> [found |-> TRUE,
                                 name |-> PyIndex(l.files, next_index_to_post),
                                 index |-> next_index_to_post]]
                  ELSE [result |-> "raised", files |-> l.files, sel |-> nothing]
             ELSE [result |-> "all_posted", files |-> l.files, sel |-> nothing]

\* ----------------------------------------------------------- environment
\* what os.getenv can give PAGE_ID and ACCESS_TOKEN (lines 12-13): None when
\* the variable is not set, else its value
EnvValues ==
    { [set |-> FALSE, value |-> <<>>], [set |-> TRUE, value |-> <<>>],
      [set |-> TRUE, value |-> <<"x">>] }

\* names os.listdir may return: two images with the keys 2 and 10, an image
\* with an upper-case extension whose key is 2 again, an image without a
\* digit, and a file that is no image
FileNames ==
    { <<"s", "2", ".", "p", "n", "g">>,
      <<"s", "1", "0", ".", "p", "n", "g">>,
      <<"s", "0", "2", ".", "J", "P", "G">>,
      <<"c", ".", "j", "p", "e", "g">>,
      <<"n", ".", "t", "x", "t">> }

\* the listing of a directory of LongFiles images named 1.png, 2.png, ...,
\* as os.listdir may return it: last name first
LongListing ==
    [i \in 1..LongFiles |-> IntToStr(LongFiles + 1 - i) \o <<".", "p", "n", "g">>]

\* the directory listings of at most MaxFiles distinct names, in any order,
\* and the long one
Listings ==
    UNION { { s \in [1..k -> FileNames] : \A i, j \in 1..k : i # j => s[i] # s[j] } :
            k \in 0..MaxFiles }
    \cup {LongListing}

\* the directory "images": missing (os.listdir raises FileNotFoundError),
\* denied (os.listdir raises another OSError, e.g. PermissionError), or listed
Directories ==
    { [status |-> "missing", entries |-> <<>>], [status |-> "denied", entries |-> <<>>] }
    \cup { [status |-> "ok", entries |-> l] : l \in Listings }

\* contents last_posted.txt may hold before the first invocation; the padded
\* one starts with U+001F, which str.strip() removes and int() refuses; from
\* 9 the long directory has the index 10 to post
StateTexts ==
    { <<>>, <<"0">>, <<"1">>, <<"9">>, <<"-", "1">>, <<"-", "3">>,
      <<"U+001F", " ", "1", "\n">>, <<"x">>, <<"1", "_", "0">> }

\* last_posted.txt: absent, present but refused by open(), or a text
StateFiles ==
    { [kind |-> "absent", text |-> <<>>], [kind |-> "unreadable", text |-> <<>>] }
    \cup { [kind |-> "text", text |-> t] : t \in StateTexts }

\* status codes of the final response: success, a redirection requests does
\* not follow (300 carries no Location to follow), and a client error
StatusCodes == {200, 300, 403}

\* what response.json() meets: a JSON object, JSON that is no object (the
\* .get of line 99 raises AttributeError), or no JSON (json() raises)

Bodies == {"json_object", "json_array", "not_json"}

\* what requests.post gives back: a response, or a transport-level exception
Responses ==
    { [kind |-> "transport_error", status |-> 0, body |-> "not_json"] }
    \cup { [kind |-> "response", status |-> c, body |-> b] : c \in StatusCodes, b \in Bodies }

NoResponse == [kind |-> "none", status |-> 0, body |-> "not_json"]

\* (None, None, None)
NoSelection == [found |-> FALSE, name |-> <<>>, index |-> 0]

\* --------------------------------------------------------------- the state
VARIABLES
    PAGE_ID,        \* line 12
    ACCESS_TOKEN,   \* line 13
    images_dir,     \* the directory "images": its status and os.listdir order
    state_file,     \* the file last_posted.txt
    pc,             \* where the running invocation of post_image is
    files,          \* get_next_image's sorted listing in this invocation
    sel,            \* (image_name, image_index) returned by get_next_image
    response,       \* what requests.post returned in this invocation
    outcome,        \* how the latest invocation ended
    runs,           \* invocations started so far
    start_state,    \* the state file as this invocation found it
    initial_state,  \* the state file as the first invocation found it
    posts,          \* requests.post calls of this invocation that have returned or raised
    sent,           \* HTTP POSTs sent so far by the requests.post call under way
    writes,         \* writes of the state file in this invocation
    upd,            \* the update_state_file call in progress or last interrupted
    second,         \* a second invocation of post_image that overlaps the first
    accepted,       \* names of the images the endpoint answered 2xx for
    streak          \* the run of invocations whose publish failed

vars ==
    <<PAGE_ID, ACCESS_TOKEN, images_dir, state_file, pc, files, sel, response,
      outcome, runs, start_state, initial_state, posts, sent, writes, upd, second,
      accepted, streak>>

\* no update_state_file call has begun
NoUpdate ==
    [phase |-> "none", prev |-> [kind |-> "absent", text |-> <<>>], index |-> 0, rest |-> <<>>]

\* the second invocation before it starts
SecondIdle ==
    [pc |-> "idle", files |-> <<>>, sel |-> NoSelection, response |-> NoResponse,
     outcome |-> "none", sent |-> 0]

NoStreak == [len |-> 0, base |-> [kind |-> "absent", text |-> <<>>], sel |-> NoSelection]

Init ==
    /\ PAGE_ID \in EnvValues
    /\ ACCESS_TOKEN \in EnvValues
    /\ images_dir \in Directories
    /\ state_file \in StateFiles
    /\ pc = "idle"
    /\ files = <<>>
    /\ sel = NoSelection
    /\ response = NoResponse
    /\ outcome = "none"
    /\ runs = 0
    /\ start_state = state_file
    /\ initial_state = state_file
    /\ posts = 0
    /\ sent = 0
    /\ writes = 0
    /\ upd = NoUpdate
    /\ second = SecondIdle
    /\ accepted = <<>>
    /\ streak = NoStreak

\* `not x` of Python for a value of os.getenv
Falsy(x) == ~x.set \/ x.value = <<>>

\* the check of line 68 with `and` in place of `or`
CredentialsBothMissing == Falsy(PAGE_ID) /\ Falsy(ACCESS_TOKEN)

\* line 68
CredentialsMissing == Falsy(PAGE_ID) \/ Falsy(ACCESS_TOKEN)

\* Response.raise_for_status raises HTTPError for 400 <= status < 600
RaisesForStatus(r) == 400 <= r.status /\ r.status < 600

\* the endpoint accepted the upload
Is2xx(r) == r.kind = "response" /\ 200 <= r.status /\ r.status < 300

\* a publish that failed: no 2xx response came back
PublishFailed(r) == ~Is2xx(r)

\* lines 65-78: the credential check and get_next_image
Start ==
    /\ pc = "idle"
    /\ runs < MaxRuns
    /\ runs' = runs + 1
    /\ start_state' = state_file
    /\ posts' = 0
    /\ sent' = 0
    /\ writes' = 0
    /\ response' = NoResponse
    /\ IF CredentialsMissing
       THEN /\ pc' = "idle"
            /\ outcome' = "missing_credentials"
            /\ files' = <<>>
            /\ sel' = NoSelection
       ELSE LET g == get_next_image(images_dir, state_file)
            IN  /\ files' = g.files
                /\ sel' = g.sel
                /\ IF g.result = "found"
                   THEN pc' = "posting" /\ outcome' = "running"
                   ELSE pc' = "idle" /\ outcome' = g.result
    /\ streak' = IF pc' = "idle" THEN NoStreak ELSE streak
    /\ UNCHANGED <<PAGE_ID, ACCESS_TOKEN, images_dir, state_file, initial_state, accepted,
                   upd, second>>

\* how open(image_path, 'rb') of line 90 can fail: FileNotFoundError goes to
\* the handler of line 104, any other OSError (the path is a directory, the
\* file may not be read) to the handler of line 114
OpenFailures == {"image_missing", "unexpected_error"}

\* line 90 when the image file cannot be opened
OpenFails ==
    /\ pc = "posting"
    /\ sent = 0
    /\ pc' = "idle"
    /\ \E o \in OpenFailures : outcome' = o
    /\ streak' = [len |-> streak.len + 1,
                  base |-> IF streak.len = 0 THEN state_file ELSE streak.base,
                  sel |-> sel]
    /\ UNCHANGED <<PAGE_ID, ACCESS_TOKEN, images_dir, state_file, files, sel, response,
                   runs, start_state, initial_state, posts, sent, writes, accepted,
                   upd, second>>

\* line 92, inside requests.post: the POST with the image was sent and the
\* endpoint answered 307 or 308 with a Location; requests (allow_redirects
\* is left at its default) sends the same POST again to that address
PostRedirected ==
    /\ pc = "posting"
    /\ sent < MaxRedirects
    /\ sent' = sent + 1
    /\ UNCHANGED <<PAGE_ID, ACCESS_TOKEN, images_dir, state_file, pc, files, sel,
                   response, outcome, runs, start_state, initial_state, posts, writes,
                   accepted, streak, upd, second>>

\* lines 90-92: the image is opened, the POST is sent and requests.post
\* returns the final answer or raises. After a 301, 302 or 303 requests goes
\* on with a GET, and the final answer is the one to that GET.
Post ==
    /\ pc = "posting"
    /\ \E r \in Responses :
        /\ response' = r
        /\ accepted' = IF Is2xx(r) THEN Append(accepted, sel.name) ELSE accepted
    /\ pc' = "responded"
    /\ posts' = posts + 1
    /\ sent' = sent + 1
    /\ UNCHANGED <<PAGE_ID, ACCESS_TOKEN, images_dir, state_file, files, sel, outcome,
                   runs, start_state, initial_state, writes, streak,
                   upd, second>>

\* lines 95-115: how the invocation ends for a given result of requests.post.
\* A transport error goes to the handler of line 111. HTTPError goes to the
\* handler of line 106, whose e.response.json() raises out of post_image when
\* the body is no JSON. Otherwise json() or .get may raise into the handlers
\* of lines 111-115, and only a JSON object reaches update_state_file.
Handling(r) ==
    IF r.kind = "transport_error" THEN [outcome |-> "network_error", write |-> FALSE]
    ELSE IF RaisesForStatus(r)
         THEN IF r.body = "not_json"
              THEN [outcome |-> "raised", write |-> FALSE]
              ELSE [outcome |-> "http_error", write |-> FALSE]
    ELSE IF r.body = "not_json" THEN [outcome |-> "network_error", write |-> FALSE]
    ELSE IF r.body = "json_array" THEN [outcome |-> "unexpected_error", write |-> FALSE]
    ELSE [outcome |-> "success", write |-> TRUE]

\* how update_state_file can fail; line 102 is inside the try of line 89, so
\* the exception goes to the handlers. open(STATE_FILE, "w") of line 62 is
\* refused (PermissionError: a read-only file), or finds no directory to
\* make the file in (FileNotFoundError: the path is a link into a missing
\* directory), or the open succeeds and the flush at the end of the with
\* block fails (OSError: no room for the text), or the close of the file
\* itself reports an error after the whole text was stored.
WriteFailures == {"open_refused", "open_not_found", "close_failed"}

\* the failures open(sf, "w") can meet: a file that exists is always found
OpenWriteFailures(sf) ==
    { w \in WriteFailures :
        \/ w = "open_refused"
        \/ w = "open_not_found" /\ sf.kind = "absent" }

\* the handler a failure of update_state_file ends in: FileNotFoundError in
\* the one of line 104, any other OSError in the one of line 114
WriteFailureOutcome(w) == IF w = "open_not_found" THEN "image_missing" ELSE "unexpected_error"

\* what the file holds of the text when the end of the with block raises:
\* nothing or the first characters when the flush failed, the whole text
\* when the flush stored it and the close reported the error
StoredPrefixes(text) == { SubSeq(text, 1, k) : k \in 0..Len(text) }

\* the state file after update_state_file failed: as it was when the open
\* failed; when the end of the with block failed, emptied by the open and
\* holding what had been stored
WriteFailureFile(w, sf, stored) ==
    IF w = "close_failed" THEN [kind |-> "text", text |-> stored] ELSE sf

\* lines 95-115: raise_for_status, response.json, update_state_file, the handlers
Handle ==
    /\ pc = "responded"
    /\ LET h == Handling(response)
       IN  \/ /\ outcome' = h.outcome
              /\ state_file' = IF h.write THEN update_state_file(sel.index) ELSE state_file
              /\ writes' = IF h.write THEN writes + 1 ELSE writes
           \/ /\ h.write
              /\ \E w \in OpenWriteFailures(state_file) \cup (WriteFailures \cap {"close_failed"}) :
                 \E stored \in StoredPrefixes(IntToStr(sel.index)) :
                    /\ outcome' = WriteFailureOutcome(w)
                    /\ state_file' = WriteFailureFile(w, state_file, stored)
              /\ writes' = writes
    /\ pc' = "idle"
    /\ sent' = 0
    /\ streak' = IF PublishFailed(response)
                 THEN [len |-> streak.len + 1,
                       base |-> IF streak.len = 0 THEN state_file ELSE streak.base,
                       sel |-> sel]
                 ELSE NoStreak
    /\ UNCHANGED <<PAGE_ID, ACCESS_TOKEN, images_dir, files, sel, response, runs,
                   start_state, initial_state, posts, accepted,
                   upd, second>>

Next == Start \/ OpenFails \/ PostRedirected \/ Post \/ Handle

Spec == Init /\ [][Next]_vars

\* ------------------------------------- update_state_file, step by step
\* The same program with the write of lines 62-63 taken apart: open(.., "w")
\* creates or truncates the file or fails, the characters of str(index)
\* reach it one after the other unless the flush fails, the with block
\* closes it, and the process may die at any point in between.

\* lines 95-115 for a response that does not lead to update_state_file
HandleNoWrite ==
    /\ ~Handling(response).write
    /\ Handle

\* line 62: open(STATE_FILE, "w") creates or empties the file, or raises,
\* and then the file stays as it is and the invocation ends in a handler
WriteOpen ==
    /\ pc = "responded"
    /\ Handling(response).write
    /\ sent' = 0
    /\ \/ /\ pc' = "writing"
          /\ state_file' = [kind |-> "text", text |-> <<>>]
          /\ upd' = [phase |-> "writing", prev |-> state_file, index |-> sel.index,
                     rest |-> IntToStr(sel.index)]
          /\ UNCHANGED <<outcome, streak>>
       \/ /\ pc' = "idle"
          /\ \E w \in OpenWriteFailures(state_file) : outcome' = WriteFailureOutcome(w)
          /\ streak' = IF PublishFailed(response)
                 THEN [len |-> streak.len + 1,
                       base |-> IF streak.len = 0 THEN state_file ELSE streak.base,
                       sel |-> sel]
                 ELSE NoStreak
          /\ UNCHANGED <<state_file, upd>>
    /\ UNCHANGED <<PAGE_ID, ACCESS_TOKEN, images_dir, files, sel, response,
                   runs, start_state, initial_state, posts, writes, second,
                   accepted>>

\* line 63: f.write(str(last_successful_index)), one character reaching the file
WriteChar ==
    /\ pc = "writing"
    /\ upd.rest # <<>>
    /\ state_file' = [state_file EXCEPT !.text = Append(@, Head(upd.rest))]
    /\ upd' = [upd EXCEPT !.rest = Tail(@)]
    /\ UNCHANGED <<PAGE_ID, ACCESS_TOKEN, images_dir, pc, files, sel, response,
                   outcome, runs, start_state, initial_state, posts, sent, writes,
                   second, accepted, streak>>

\* the end of update_state_file: the invocation is over, with the state
\* written or with the handler of line 114
WriteEnds(failed) ==
    /\ pc' = "idle"
    /\ outcome' = IF failed THEN WriteFailureOutcome("close_failed") ELSE "success"
    /\ writes' = IF failed THEN writes ELSE writes + 1
    /\ streak' = IF PublishFailed(response)
                 THEN [len |-> streak.len + 1,
                       base |-> IF streak.len = 0 THEN upd.prev ELSE streak.base,
                       sel |-> sel]
                 ELSE NoStreak

\* lines 62-63: the with block ends, update_state_file and post_image
\* return; or the end of the with block raises, before the whole text
\* reached the file or after it, and the file keeps what reached it
WriteClose ==
    /\ pc = "writing"
    /\ \/ /\ upd.rest = <<>>
          /\ WriteEnds(FALSE)
          /\ upd' = [upd EXCEPT !.phase = "closed"]
       \/ /\ "close_failed" \in WriteFailures
          /\ WriteEnds(TRUE)
          /\ upd' = [upd EXCEPT !.phase = "failed"]
    /\ UNCHANGED <<PAGE_ID, ACCESS_TOKEN, images_dir, state_file, files, sel, response,
                   runs, start_state, initial_state, posts, sent, second, accepted>>

\* the process dies inside update_state_file; the file stays as it is
Crash ==
    /\ pc = "writing"
    /\ pc' = "idle"
    /\ outcome' = "crashed"
    /\ upd' = [upd EXCEPT !.phase = "crashed"]
    /\ streak' = NoStreak
    /\ UNCHANGED <<PAGE_ID, ACCESS_TOKEN, images_dir, state_file, files, sel, response,
                   runs, start_state, initial_state, posts, sent, writes, second,
                   accepted>>

NextCrash ==
    Start \/ OpenFails \/ PostRedirected \/ Post \/ HandleNoWrite \/ WriteOpen
          \/ WriteChar \/ WriteClose \/ Crash

SpecCrash == Init /\ [][NextCrash]_vars

\* ------------------------------------------- two overlapping invocations
\* Two processes run post_image once each on the same directory and state
\* file (two runs of the script started close together). The first is the
\* invocation of the variables pc, files, sel, response; the second one keeps
\* its locals in the record second. Nothing in lines 65-115 takes a lock, so
\* their steps interleave freely. update_state_file is two steps here: the
\* open of line 62 empties the file, and the text of line 63 reaches the
\* file in one piece when the with block closes it; either step may fail.

\* the directories of SpecOverlap hold fewer than MaxFiles entries
OverlapInit ==
    /\ Init
    /\ Len(images_dir.entries) < MaxFiles

\* the file after a process wrote text at the start of it: what another
\* process wrote beyond the end of text since the open stays
WriteAt0(text, old) == text \o SubSeq(old, Len(text) + 1, Len(old))

\* the first process: one invocation
FirstStart ==
    /\ runs = 0
    /\ Start

\* lines 62-63: the text reaches the file and the with block ends, or the
\* end of the with block raises after none, some or all of the text was
\* stored, the rest of the file staying as the open and the other process
\* left it
WriteAll ==
    /\ pc = "writing"
    /\ upd.rest = IntToStr(upd.index)
    /\ \/ /\ state_file' = [kind |-> "text", text |-> WriteAt0(upd.rest, state_file.text)]
          /\ WriteEnds(FALSE)
          /\ upd' = [upd EXCEPT !.phase = "closed", !.rest = <<>>]
       \/ /\ "close_failed" \in WriteFailures
          /\ \E stored \in StoredPrefixes(upd.rest) :
                /\ state_file' = [kind |-> "text", text |-> WriteAt0(stored, state_file.text)]
                /\ upd' = [upd EXCEPT !.phase = "failed",
                                      !.rest = SubSeq(@, Len(stored) + 1, Len(@))]
          /\ WriteEnds(TRUE)
    /\ UNCHANGED <<PAGE_ID, ACCESS_TOKEN, images_dir, files, sel, response, runs,
                   start_state, initial_state, posts, sent, second, accepted>>

\* what the second process leaves unchanged, but for the state file and the
\* accepted posts
FirstLocals ==
    <<PAGE_ID, ACCESS_TOKEN, images_dir, pc, files, sel, response, outcome, runs,
      start_state, initial_state, posts, sent, writes, upd, streak>>

\* a variant in which the second process waits while the first invocation
\* is between its read of the state file and its end
SecondMayStartLocked ==
    /\ pc = "idle"
    /\ second.pc = "idle"
    /\ second.outcome = "none"

\* line 65: what the second process waits for before it enters post_image:
\* nothing but its own start
SecondMayStart ==
    /\ second.pc = "idle"
    /\ second.outcome = "none"

\* lines 65-78 in the second process
SecondStart ==
    /\ SecondMayStart
    /\ IF CredentialsMissing
       THEN second' = [SecondIdle EXCEPT !.outcome = "missing_credentials"]
       ELSE LET g == get_next_image(images_dir, state_file)
            IN  second' = [pc |-> IF g.result = "found" THEN "posting" ELSE "idle",
                           files |-> g.files,
                           sel |-> g.sel,
                           response |-> NoResponse,
                           outcome |-> IF g.result = "found" THEN "running" ELSE g.result,
                           sent |-> 0]
    /\ UNCHANGED <<FirstLocals, state_file, accepted>>

\* line 90 in the second process: open(image_path, 'rb') fails
SecondOpenFails ==
    /\ second.pc = "posting"
    /\ second.sent = 0
    /\ \E o \in OpenFailures : second' = [second EXCEPT !.pc = "idle", !.outcome = o]
    /\ UNCHANGED <<FirstLocals, state_file, accepted>>

\* line 92 in the second process: a 307 or 308 answer is followed
SecondPostRedirected ==
    /\ second.pc = "posting"
    /\ second.sent < MaxRedirects
    /\ second' = [second EXCEPT !.sent = @ + 1]
    /\ UNCHANGED <<FirstLocals, state_file, accepted>>

\* lines 90-92 in the second process: requests.post returns or raises
SecondPost ==
    /\ second.pc = "posting"
    /\ \E r \in Responses :
          /\ second' = [second EXCEPT !.pc = "responded", !.response = r, !.sent = @ + 1]
          /\ accepted' = IF Is2xx(r) THEN Append(accepted, second.sel.name) ELSE accepted
    /\ UNCHANGED <<FirstLocals, state_file>>

\* lines 95-115 in the second process, for a response that does not lead to
\* update_state_file
SecondHandleNoWrite ==
    /\ second.pc = "responded"
    /\ ~Handling(second.response).write
    /\ second' = [second EXCEPT !.pc = "idle", !.sent = 0,
                                !.outcome = Handling(second.response).outcome]
    /\ UNCHANGED <<FirstLocals, state_file, accepted>>

\* line 62 in the second process: open(STATE_FILE, "w") empties the file or
\* raises
SecondWriteOpen ==
    /\ second.pc = "responded"
    /\ Handling(second.response).write
    /\ \/ /\ second' = [second EXCEPT !.pc = "writing", !.sent = 0]
          /\ state_file' = [kind |-> "text", text |-> <<>>]
       \/ /\ \E w \in OpenWriteFailures(state_file) :
                second' = [second EXCEPT !.pc = "idle", !.sent = 0,
                                         !.outcome = WriteFailureOutcome(w)]
          /\ UNCHANGED state_file
    /\ UNCHANGED <<FirstLocals, accepted>>

\* lines 62-63 in the second process: the text reaches the file, or the
\* end of the with block raises after none, some or all of it was stored
SecondWriteAll ==
    /\ second.pc = "writing"
    /\ \/ /\ second' = [second EXCEPT !.pc = "idle", !.outcome = "success"]
          /\ state_file' = [kind |-> "text",
                            text |-> WriteAt0(IntToStr(second.sel.index), state_file.text)]
       \/ /\ "close_failed" \in WriteFailures
          /\ second' = [second EXCEPT !.pc = "idle",
                                      !.outcome = WriteFailureOutcome("close_failed")]
          /\ \E stored \in StoredPrefixes(IntToStr(second.sel.index)) :
                state_file' = [kind |-> "text", text |-> WriteAt0(stored, state_file.text)]
    /\ UNCHANGED <<FirstLocals, accepted>>

NextOverlap ==
    \/ FirstStart \/ OpenFails \/ PostRedirected \/ Post
    \/ HandleNoWrite \/ WriteOpen \/ WriteAll
    \/ SecondStart \/ SecondOpenFails \/ SecondPostRedirected \/ SecondPost
    \/ SecondHandleNoWrite \/ SecondWriteOpen \/ SecondWriteAll

SpecOverlap == OverlapInit /\ [][NextOverlap]_vars

TypeOK ==
    /\ pc \in {"idle", "posting", "responded", "writing"}
    /\ runs \in 0..MaxRuns
    /\ state_file.kind \in {"absent", "unreadable", "text"}
    /\ Len(accepted) <= runs

\* ================================================================= claims
\* an invocation has run to its end
Finished == pc = "idle" /\ runs > 0

\* the invocation attempted a publish and it failed: the image file could
\* not be opened, the request failed in transport, or the response was not 2xx
FailedPublish ==
    \/ (response = NoResponse /\ outcome \in OpenFailures)
    \/ (response # NoResponse /\ ~Is2xx(response))

\* 0-based position of a name in a listing
PositionOf(listing, name) == (CHOOSE i \in 1..Len(listing) : listing[i] = name) - 1

S2 == <<"s", "2", ".", "p", "n", "g">>
S10 == <<"s", "1", "0", ".", "p", "n", "g">>
S02 == <<"s", "0", "2", ".", "J", "P", "G">>
NTxt == <<"n", ".", "t", "x", "t">>

\* C1: over sequential invocations on an unchanged directory the persisted
\* state is never advanced by an invocation whose publish did not succeed,
\* changes only by exactly +1, and never gets smaller.
C1_Claim ==
    (Finished /\ ReadState(start_state).ok) =>
        LET old == ReadState(start_state).val
            new == ReadState(state_file).val
        IN  /\ ~Is2xx(response) => state_file = start_state
            /\ new = old \/ new = old + 1
            /\ new >= old

\* C2: no image is accepted by the endpoint (2xx) more than once.
C2_Claim == \A i, j \in 1..Len(accepted) : i # j => accepted[i] # accepted[j]

\* C3: once the POST returned 2xx and the invocation has ended, the value
\* read from the state file is the index of the published entry.
C3_Claim ==
    (Finished /\ Is2xx(response)) =>
        /\ ReadState(state_file).ok
        /\ ReadState(state_file).val = PositionOf(files, sel.name)

\* C4: the state file is written only after a 2xx response of the same
\* invocation, and is unchanged after a failed publish.
C4_Claim ==
    /\ writes > 0 => Is2xx(response)
    /\ (Finished /\ FailedPublish) => state_file = start_state

\* C5: with the listing of n >= 1 images and the state value k read,
\* get_next_image returns (files[k+1], k+1) when 0 <= k+1 < n and
\* (None, None, None) otherwise.
C5_Claim ==
    (runs > 0 /\ files # <<>> /\ ReadState(start_state).ok) =>
        LET k == ReadState(start_state).val
            n == Len(files)
        IN  IF 0 <= k + 1 /\ k + 1 < n
            THEN sel = [found |-> TRUE, name |-> files[k + 2], index |-> k + 1]
            ELSE sel = NoSelection /\ outcome = "all_posted"

\* C6: through a run of invocations whose publish failed each time, the
\* state file keeps the value it had before the first of them and every
\* invocation selects the same image.
C6_Claim ==
    streak.len > 0 =>
        /\ state_file = streak.base
        /\ pc = "posting" => sel = streak.sel

\* C7: a state file that is absent, unreadable or not an integer reads as
\* -1 without an error, and the invocation selects index 0.
C7_Claim ==
    (runs > 0 /\ files # <<>>
        /\ (start_state.kind \in {"absent", "unreadable"} \/ ~ParseInt(Strip(start_state.text)).ok)) =>
        /\ outcome # "raised"
        /\ sel = [found |-> TRUE, name |-> files[1], index |-> 0]

\* C8: no exception propagates out of post_image, and an invocation that
\* met an error leaves the state file as it found it.
C8_Claim ==
    /\ outcome # "raised"
    /\ (Finished /\ ~Is2xx(response)) => state_file = start_state

\* C9: when PAGE_ID or ACCESS_TOKEN is absent or empty, post_image returns
\* at once: no image is selected, no request is issued, the endpoint accepts
\* nothing and the state file is not written.
C9_MissingCredentialsShortCircuit ==
    (Falsy(PAGE_ID) \/ Falsy(ACCESS_TOKEN)) =>
        /\ pc = "idle"
        /\ outcome \in {"none", "missing_credentials"}
        /\ files = <<>>
        /\ sel = NoSelection
        /\ response = NoResponse
        /\ accepted = <<>>
        /\ writes = 0
        /\ state_file = start_state

\* C9 witness: an invocation ran with a page id and an empty token, over a
\* directory and a state file that would otherwise select an image
C9_Witness ==
    /\ ~Falsy(PAGE_ID)
    /\ ACCESS_TOKEN = [set |-> TRUE, value |-> <<>>]
    /\ outcome = "missing_credentials"
    /\ runs >= 2
    /\ get_next_image(images_dir, state_file).result = "found"

\* a name ends in .png, .jpg or .jpeg, in any mix of upper and lower case
HasImageExtension(f) ==
    LET n == Len(f)
    IN  \/ /\ n >= 4
           /\ f[n - 3] = "."
           /\ \/ f[n - 2] \in {"p", "P"} /\ f[n - 1] \in {"n", "N"}
              \/ f[n - 2] \in {"j", "J"} /\ f[n - 1] \in {"p", "P"}
           /\ f[n] \in {"g", "G"}
        \/ /\ n >= 5
           /\ f[n - 4] = "."
           /\ f[n - 3] \in {"j", "J"} /\ f[n - 2] \in {"p", "P"}
           /\ f[n - 1] \in {"e", "E"} /\ f[n] \in {"g", "G"}

\* the listed names are exactly the image names of the directory
ListsExactlyImages ==
    /\ \A i, j \in 1..Len(files) : i # j => files[i] # files[j]
    /\ { files[i] : i \in 1..Len(files) }
         = { images_dir.entries[i] : i \in { j \in 1..Len(images_dir.entries) :
                                                HasImageExtension(images_dir.entries[j]) } }

\* C10 as claimed: when the listing succeeds it holds exactly the image names
\* and its keys are strictly ascending.
C10_Claim ==
    files # <<>> =>
        /\ ListsExactlyImages
        /\ \A i \in 1..(Len(files) - 1) : SortKey(files[i]).val < SortKey(files[i + 1]).val

\* the sort key of every file name of the model
KeyOf == [f \in FileNames \cup { LongListing[i] : i \in 1..LongFiles } |-> SortKey(f)]

\* C10 amended: when the listing succeeds it holds exactly the image names,
\* its keys never descend, names with equal keys keep their os.listdir order,
\* so it is strictly ascending when the keys are pairwise distinct; the order
\* is numeric (s2 before s10), not lexicographic.
C10_SortedByKeyStable ==
    files # <<>> =>
        LET n == Len(files)
            key == [i \in 1..n |-> KeyOf[files[i]].val]
            pos == [i \in 1..n |-> PositionOf(images_dir.entries, files[i])]
        IN  /\ ListsExactlyImages
            /\ \A i, j \in 1..n :
                  i < j => /\ key[i] <= key[j]
                           /\ key[i] = key[j] => pos[i] < pos[j]
            /\ (\A i, j \in 1..n : i # j => key[i] # key[j])
                  => \A i \in 1..(n - 1) : key[i] < key[i + 1]
            /\ { files[i] : i \in 1..n } = {S2, S10} => files = <<S2, S10>>

\* C10 witness: os.listdir returned s10.png, n.txt, s2.png and the listing
\* came out s2.png, s10.png
C10_Witness ==
    /\ images_dir.entries = <<S10, NTxt, S2>>
    /\ files = <<S2, S10>>


\* C12: an invocation of post_image issues at most one HTTP POST and writes
\* the state file at most once, both for the one image it selected: a write
\* follows a POST of this invocation and stores the selected index, and
\* after a POST that failed the invocation ends without another POST.
C12_Claim ==
    /\ sent <= 1
    /\ posts <= 1
    /\ writes <= 1
    /\ posts = 1 => (sel.found /\ pc \in {"responded", "idle"})
    /\ writes = 1 =>
          /\ posts = 1
          /\ state_file = [kind |-> "text", text |-> IntToStr(sel.index)]
    /\ (Finished /\ response # NoResponse /\ PublishFailed(response)) => posts = 1

CJpeg == <<"c", ".", "j", "p", "e", "g">>

\* a name without any digit character
HasNoDigit(f) == \A j \in 1..Len(f) : f[j] \notin Digits

\* C15: with credentials present, when the image directory does not exist,
\* or holds no file with an image extension, or holds a file with an image
\* extension and no digit in its name, the invocation ends in get_next_image
\* with nothing to post, whatever the state file is (even one that cannot be
\* read): no request is issued and the state file is not written. A file
\* without digits and without an image extension does not make the listing
\* fail.
C15_ListingFailuresAbortFirst ==
    (runs > 0 /\ ~Falsy(PAGE_ID) /\ ~Falsy(ACCESS_TOKEN)) =>
        LET images == SelectSeq(images_dir.entries, HasImageExtension)
            absent == images_dir.status = "missing"
            noimage == images_dir.status = "ok" /\ images = <<>>
            digitless == /\ images_dir.status = "ok"
                         /\ \E i \in 1..Len(images) : HasNoDigit(images[i])
        IN  /\ (absent \/ noimage \/ digitless) =>
                  /\ pc = "idle"
                  /\ outcome = (IF absent THEN "dir_not_found"
                                ELSE IF digitless THEN "sort_error"
                                ELSE "no_images")
                  /\ ~sel.found
                  /\ posts = 0 /\ response = NoResponse /\ accepted = <<>>
                  /\ writes = 0 /\ state_file = initial_state
            /\ (images_dir.status = "ok" /\ ~noimage /\ ~digitless) =>
                  outcome \notin {"dir_not_found", "sort_error", "no_images"}

\* C15 witness: the directory holds s2.png and c.jpeg (no digit), the state
\* file cannot be read, and the invocation ended on the sorting error
C15_Witness ==
    /\ Finished
    /\ images_dir.entries = <<S2, CJpeg>>
    /\ state_file.kind = "unreadable"
    /\ outcome = "sort_error"
    /\ posts = 0


\* C16: over a directory of n images, when the first invocation found the
\* state file absent or holding an integer in -1..n-1, the value read from
\* the state file is in -1..n-1 at every later point: the file is still
\* absent, or holds an integer in -1..n-1 (an index written in full, or the
\* first digits of one that a failed write left), or was left empty by a
\* failed write and reads as -1. An invocation that wrote the state file
\* wrote an index in 0..n-1 that is the position of the selected image in
\* the listing of that invocation.
C16_RangeInvariant ==
    LET n == Len(SelectSeq(images_dir.entries, HasImageExtension))
        first == ParseInt(Strip(initial_state.text))
        now == ParseInt(Strip(state_file.text))
    IN  ( /\ images_dir.status = "ok"
          /\ \/ initial_state.kind = "absent"
             \/ /\ initial_state.kind = "text"
                /\ first.ok
                /\ 0 - 1 <= first.val /\ first.val <= n - 1 )
        => /\ \/ state_file.kind = "absent"
              \/ state_file = initial_state
              \/ /\ state_file.kind = "text"
                 /\ now.ok \/ state_file.text = <<>>
                 /\ 0 - 1 <= ReadState(state_file).val
                 /\ ReadState(state_file).val <= n - 1
           /\ writes > 0 =>
                 /\ Len(files) = n
                 /\ 0 <= sel.index /\ sel.index <= n - 1
                 /\ files[sel.index + 1] = sel.name
                 /\ now.val = sel.index

\* C16 witness: LongFiles images and the state 9 at first; the write of the
\* index 10 failed in the first invocation and left the file holding 1, and
\* the second invocation has just posted the image at index 2 and written 2
C16_Witness ==
    /\ Finished
    /\ runs = 2
    /\ initial_state = [kind |-> "text", text |-> <<"9">>]
    /\ start_state = [kind |-> "text", text |-> <<"1">>]
    /\ Len(files) = LongFiles
    /\ sel.index = 2
    /\ writes = 1
    /\ state_file = [kind |-> "text", text |-> <<"2">>]


\* C11: starting from an absent state file, with credentials present and a
\* directory whose listing succeeds with n images: (retry) after an
\* invocation whose publish failed, the next invocation selects the same
\* image again; (order) the images the endpoint accepted so far are the
\* first images of the listing, each once and in listing order, so the
\* successful invocations posted the indices 0, 1, ... in that order;
\* (quiescence) an invocation that found the state at n-1 ended with nothing
\* to post, no request and the state file untouched. The safety part of the
\* claim is stated; the progress part adds that the state reaches n-1.
C11_Claim ==
    LET l == ListImages(images_dir)
        n == Len(l.files)
        before == ReadState(start_state)
    IN  ( /\ initial_state.kind = "absent"
          /\ ~Falsy(PAGE_ID) /\ ~Falsy(ACCESS_TOKEN)
          /\ l.result = "ok" )
        => /\ (Finished /\ FailedPublish) =>
                 get_next_image(images_dir, state_file).sel = sel
           /\ /\ Len(accepted) <= n
              /\ \A i \in 1..Len(accepted) : accepted[i] = l.files[i]
           /\ (Finished /\ before.ok /\ before.val = n - 1) =>
                 /\ outcome = "all_posted"
                 /\ posts = 0
                 /\ state_file = start_state


\* C14: at every point of update_state_file(index), from the open of the
\* file on, and after a crash at any such point, the value a read of the
\* state file obtains is not greater than the value the file held before the
\* call, unless the whole string has been written and the value is index.
C14_Claim ==
    upd.phase # "none" =>
        LET now == ReadState(state_file)
            before == ReadState(upd.prev)
        IN  /\ now.ok
            /\ \/ now.val <= before.val
               \/ (upd.rest = <<>> /\ now.val = upd.index)


\* an invocation is between its read of the state file and its end
InFlight(p) == p \in {"posting", "responded"}

\* C13: two invocations of post_image are not kept apart. While the first
\* is between its read of the state file and its write, the second is free
\* to start, and starting then it selects the same index and image;
\* two invocations that are both in that stretch hold the same selection,
\* and each of them is free to issue its POST, so the same image can be
\* posted twice.
C13_OverlapUnguarded ==
    /\ (InFlight(pc) /\ second.pc = "idle" /\ second.outcome = "none") =>
          /\ SecondMayStart
          /\ get_next_image(images_dir, state_file).sel = sel
    /\ (InFlight(pc) /\ InFlight(second.pc)) =>
          /\ sel.found
          /\ second.sel = sel
    /\ (pc = "posting" /\ second.pc = "posting") =>
          (ENABLED Post /\ ENABLED SecondPost)

\* C13 witness: both invocations selected the same image before either wrote
\* the state file, and the endpoint accepted it from both
C13_Witness ==
    /\ pc = "responded" /\ Is2xx(response)
    /\ second.pc = "responded" /\ Is2xx(second.response)
    /\ second.sel = sel
    /\ accepted = <<sel.name, sel.name>>

====
